---- MODULE Spec2Model ----
(***************************************************************************)
(* A model of app.py: the value-to-SQL-literal encoder (escape_mysql,      *)
(* format_sql_value), the chunked statement generator                      *)
(* (generate_chunked_insert_queries) and the Streamlit script that loads   *)
(* a file, renames columns, and offers the generated script for download.  *)
(*                                                                         *)
(* Text is a sequence of one-character strings.  A Python value is a       *)
(* record [t |-> its class, v |-> its payload].  A SQL literal is a        *)
(* sequence of tokens: one-character strings for an escaped text, whole    *)
(* words for NULL / TRUE / FALSE and for the digits of a number.           *)
(***************************************************************************)
EXTENDS Naturals, Integers, Sequences, FiniteSets, TLC

VARIABLES val, literal,
          g_df, g_table_name, g_chunk_size, g_use_ignore, g_out,
          pc, uploaded_file, df, new_column_names, renamed_df,
          table_name, chunk_size, use_ignore, truncate_table, submitted,
          generated_queries, final_query_output, download, messages

enc_vars == <<val, literal>>
gen_vars == <<g_df, g_table_name, g_chunk_size, g_use_ignore, g_out>>
app_vars == <<pc, uploaded_file, df, new_column_names, renamed_df,
              table_name, chunk_size, use_ignore, truncate_table, submitted,
              generated_queries, final_query_output, download, messages>>
vars == <<enc_vars, gen_vars, app_vars>>

(***************************************************************************)
(* Bounds of the model.                                                    *)
(***************************************************************************)
MaxTextLen == 3
MaxInt == 1
MaxRows == 3
MaxChunk == 3
MaxFileRows == 2

Min(a, b) == IF a < b THEN a ELSE b

(***************************************************************************)
(* Characters.                                                             *)
(***************************************************************************)
BS == "\\"
SQ == "'"
DQ == "\""
NL == "\n"
CR == "\r"
Chars == {BS, SQ, DQ, NL, CR, "n", "r"}

None == [t |-> "NoneType", v |-> "None"]

RECURSIVE Texts(_)
Texts(n) ==
    IF n = 0 THEN {<<>>}
    ELSE LET shorter == Texts(n - 1)
         IN  shorter \cup {Append(s, c) : s \in {u \in shorter : Len(u) = n - 1}, c \in Chars}

(***************************************************************************)
(* Python's classes, as far as isinstance in format_sql_value tells them   *)
(* apart: each class with the classes it derives from.  bool derives from  *)
(* int, datetime from date, numpy.float64 from float, pandas' Timestamp    *)
(* and NaT from datetime.                                                  *)
(***************************************************************************)
Mro(t) ==
    CASE t = "bool"              -> {"bool", "int"}
      [] t = "datetime.datetime" -> {"datetime.datetime", "datetime.date"}
      [] t = "pd.Timestamp"      -> {"pd.Timestamp", "datetime.datetime", "datetime.date"}
      [] t = "NaTType"           -> {"NaTType", "datetime.datetime", "datetime.date"}
      [] t = "np.int64"          -> {"np.int64", "np.integer"}
      [] t = "np.float64"        -> {"np.float64", "np.floating", "float"}
      [] OTHER                   -> {t}

isinstance(v, classes) == Mro(v.t) \cap classes # {}

(***************************************************************************)
(* The values a cell can hold.                                             *)
(***************************************************************************)
FloatPayloads == {[nan |-> FALSE, i |-> i, f |-> f] : i \in 0..MaxInt, f \in {0, 5}}
NaNPayload == [nan |-> TRUE, i |-> 0, f |-> 0]
DatePayloads == {[y |-> 2024, m |-> m, d |-> 5] : m \in {1, 12}}
DateTimePayloads == {[y |-> p.y, m |-> p.m, d |-> p.d, hh |-> h, mi |-> 0, ss |-> 0] :
                        p \in DatePayloads, h \in {0, 13}}

NullValues == {None,
               [t |-> "NaTType", v |-> "NaT"],
               [t |-> "float", v |-> NaNPayload],
               [t |-> "np.float64", v |-> NaNPayload]}
BoolValues == {[t |-> c, v |-> b] : c \in {"bool", "np.bool_"}, b \in BOOLEAN}
IntValues == {[t |-> c, v |-> i] : c \in {"int", "np.int64"}, i \in 0..MaxInt}
FloatValues == {[t |-> c, v |-> p] : c \in {"float", "np.float64"}, p \in FloatPayloads}
DateValues == {[t |-> "datetime.date", v |-> p] : p \in DatePayloads}
DateTimeValues == {[t |-> c, v |-> p] : c \in {"datetime.datetime", "pd.Timestamp"},
                                         p \in DateTimePayloads}
TimeValues == {[t |-> "datetime.time", v |-> [hh |-> h, mi |-> 0, ss |-> 0]] : h \in {0, 13}}
TextValues == {[t |-> "str", v |-> s] : s \in Texts(MaxTextLen)}
Values == NullValues \cup BoolValues \cup IntValues \cup FloatValues \cup DateValues
          \cup DateTimeValues \cup TimeValues \cup TextValues

(***************************************************************************)
(* Conversions to text.                                                    *)
(***************************************************************************)
Pad2(n) == IF n < 10 THEN <<"0", ToString(n)>> ELSE <<ToString(n)>>

isoformat(v) ==
    LET p == v.v
        date == <<ToString(p.y), "-">> \o Pad2(p.m) \o <<"-">> \o Pad2(p.d)
    IN  IF v.t = "NaTType" THEN <<"NaT">>
        ELSE IF v.t = "datetime.date" THEN date
        ELSE date \o <<"T">> \o Pad2(p.hh) \o <<":">> \o Pad2(p.mi) \o <<":">> \o Pad2(p.ss)

str(v) ==
    CASE v.t = "str" -> v.v
      [] v.t \in {"int", "np.int64"} -> <<ToString(v.v)>>
      [] v.t \in {"float", "np.float64"} ->
            IF v.v.nan THEN <<"nan">> ELSE <<ToString(v.v.i), ".", ToString(v.v.f)>>
      [] v.t \in {"bool", "np.bool_"} -> IF v.v THEN <<"True">> ELSE <<"False">>
      [] v.t = "NoneType" -> <<"None">>
      [] v.t = "NaTType" -> <<"NaT">>
      [] v.t = "datetime.time" -> Pad2(v.v.hh) \o <<":">> \o Pad2(v.v.mi) \o <<":">> \o Pad2(v.v.ss)
      [] v.t = "datetime.date" -> isoformat(v)
      [] OTHER -> LET p == v.v
                  IN  <<ToString(p.y), "-">> \o Pad2(p.m) \o <<"-">> \o Pad2(p.d) \o <<" ">>
                      \o Pad2(p.hh) \o <<":">> \o Pad2(p.mi) \o <<":">> \o Pad2(p.ss)

(* str.replace(old, new) for a one-character old *)
RECURSIVE replace(_, _, _)
replace(s, old, new) ==
    IF s = <<>> THEN <<>>
    ELSE (IF Head(s) = old THEN new ELSE <<Head(s)>>) \o replace(Tail(s), old, new)

escape_mysql_quote_unescaped(v) ==
    LET s0 == IF ~isinstance(v, {"str"}) THEN str(v) ELSE v.v
        s1 == replace(s0, BS, <<BS, BS>>)
        s3 == replace(s1, DQ, <<BS, DQ>>)
        s4 == replace(s3, NL, <<BS, "n">>)
    IN  replace(s4, CR, <<BS, "r">>)

escape_mysql_backslash_last(v) ==
    LET s0 == IF ~isinstance(v, {"str"}) THEN str(v) ELSE v.v
        s2 == replace(s0, SQ, <<BS, SQ>>)
        s3 == replace(s2, DQ, <<BS, DQ>>)
        s4 == replace(s3, NL, <<BS, "n">>)
        s5 == replace(s4, CR, <<BS, "r">>)
    IN  replace(s5, BS, <<BS, BS>>)

escape_mysql(v) ==
    LET s0 == IF ~isinstance(v, {"str"}) THEN str(v) ELSE v.v
        s1 == replace(s0, BS, <<BS, BS>>)
        s2 == replace(s1, SQ, <<BS, SQ>>)
        s3 == replace(s2, DQ, <<BS, DQ>>)
        s4 == replace(s3, NL, <<BS, "n">>)
    IN  replace(s4, CR, <<BS, "r">>)

(* pd.isnull on a scalar *)
isnull(v) ==
    \/ v.t \in {"NoneType", "NaTType"}
    \/ v.t \in {"float", "np.float64"} /\ v.v.nan

format_sql_value_null_after_numeric(v) ==
    IF isinstance(v, {"int", "float", "np.integer", "np.floating"}) THEN str(v)
    ELSE IF isnull(v) THEN <<"NULL">>
    ELSE IF isinstance(v, {"datetime.date", "datetime.datetime"})
         THEN <<SQ>> \o isoformat(v) \o <<SQ>>
    ELSE IF isinstance(v, {"bool", "np.bool_"}) THEN (IF v.v THEN <<"TRUE">> ELSE <<"FALSE">>)
    ELSE <<SQ>> \o escape_mysql(v) \o <<SQ>>

format_sql_value(v) ==
    IF isnull(v) THEN <<"NULL">>
    ELSE IF isinstance(v, {"datetime.date", "datetime.datetime"})
         THEN <<SQ>> \o isoformat(v) \o <<SQ>>
    ELSE IF isinstance(v, {"int", "float", "np.integer", "np.floating"}) THEN str(v)
    ELSE IF isinstance(v, {"bool", "np.bool_"}) THEN (IF v.v THEN <<"TRUE">> ELSE <<"FALSE">>)
    ELSE <<SQ>> \o escape_mysql(v) \o <<SQ>>

(***************************************************************************)
(* Tables.  A DataFrame is its column labels, one dtype per column and its *)
(* rows; a cell holds what the column's dtype stores.                      *)
(***************************************************************************)
Text1 == <<"n", SQ>>

CellValues(dtype) ==
    CASE dtype = "int64"          -> {[t |-> "np.int64", v |-> 0], [t |-> "np.int64", v |-> MaxInt]}
      [] dtype = "float64"        -> {[t |-> "np.float64", v |-> [nan |-> FALSE, i |-> 1, f |-> 5]],
                                      [t |-> "np.float64", v |-> NaNPayload]}
      [] dtype = "bool"           -> {[t |-> "np.bool_", v |-> TRUE], [t |-> "np.bool_", v |-> FALSE]}
      [] dtype = "datetime64[ns]" -> {[t |-> "pd.Timestamp",
                                       v |-> [y |-> 2024, m |-> 1, d |-> 5, hh |-> 0, mi |-> 0, ss |-> 0]],
                                      [t |-> "NaTType", v |-> "NaT"]}
      [] OTHER                    -> {[t |-> "str", v |-> Text1], None}

Schemas == {<<"int64">>, <<"bool">>, <<"object">>,
            <<"int64", "float64">>, <<"int64", "object">>, <<"bool", "int64">>,
            <<"object", "datetime64[ns]">>, <<"float64", "object">>}

ColumnLabels == <<"a", "b", "c">>

RowsOf(dtypes) ==
    {r \in [1..Len(dtypes) -> UNION {CellValues(d) : d \in {dtypes[i] : i \in 1..Len(dtypes)}}] :
        \A i \in 1..Len(dtypes) : r[i] \in CellValues(dtypes[i])}

RowSeqs(dtypes, n) == UNION {[1..k -> RowsOf(dtypes)] : k \in 0..n}

Tables(n) ==
    UNION {{[columns |-> SubSeq(ColumnLabels, 1, Len(dtypes)), dtypes |-> dtypes, rows |-> rows] :
                rows \in RowSeqs(dtypes, n)} : dtypes \in Schemas}

len(frame) == Len(frame.rows)

(***************************************************************************)
(* DataFrame.iterrows: each row comes as a Series of ONE dtype, the common *)
(* dtype of the frame's columns, and iterating the Series gives Python     *)
(* scalars.  int64 beside float64 is upcast to float64; any other mixture  *)
(* is object, whose elements are the Python objects of the cells.          *)
(***************************************************************************)
find_common_type(dtypes) ==
    LET ds == {dtypes[i] : i \in 1..Len(dtypes)}
    IN  IF Cardinality(ds) = 1 THEN CHOOSE d \in ds : TRUE
        ELSE IF ds = {"int64", "float64"} THEN "float64"
        ELSE "object"

to_python(cell, dtype) ==
    CASE cell.t = "np.int64" ->
            IF dtype = "float64"
            THEN [t |-> "float", v |-> [nan |-> FALSE, i |-> cell.v, f |-> 0]]
            ELSE [t |-> "int", v |-> cell.v]
      [] cell.t = "np.float64" -> [t |-> "float", v |-> cell.v]
      [] cell.t = "np.bool_" -> [t |-> "bool", v |-> cell.v]
      [] OTHER -> cell

iterrows(frame) ==
    LET dtype == find_common_type(frame.dtypes)
    IN  [r \in 1..Len(frame.rows) |->
            [c \in 1..Len(frame.dtypes) |-> to_python(frame.rows[r][c], dtype)]]

iloc(frame, start, end) ==
    [frame EXCEPT !.rows = SubSeq(frame.rows, start + 1, Min(end, Len(frame.rows)))]

(***************************************************************************)
(* generate_chunked_insert_queries.  A statement is the record of the      *)
(* holes of the f-string of line 64; the output is the statements with the *)
(* separator of line 67 between them, the empty sequence for none.         *)
(***************************************************************************)
Separator == [sep |-> "\n\n-- -- -- -- -- -- -- -- -- --\n\n"]

RECURSIVE join(_, _)
join(sep, list) ==
    IF list = <<>> THEN <<>>
    ELSE IF Len(list) = 1 THEN <<list[1]>>
    ELSE <<list[1], sep>> \o join(sep, Tail(list))

(* the backtick, which a TLA+ string cannot hold *)
BT == "BACKTICK"

quote_identifier(name) == <<BT, name, BT>>

columns_of(frame) ==
    [i \in 1..Len(frame.columns) |-> quote_identifier(frame.columns[i])]

insert_command_always_ignore(ignore) == "INSERT IGNORE INTO"

insert_command(ignore) == IF ignore THEN "INSERT IGNORE INTO" ELSE "INSERT INTO"

values_of(row) == [i \in 1..Len(row) |-> format_sql_value(row[i])]

chunk_end_one_short(start, size, n) == Min(start + size, n) - 1

chunk_end(start, size, n) == Min(start + size, n)

RECURSIVE chunk_loop(_, _, _, _, _, _)
chunk_loop(frame, name, size, ignore, start, queries) ==
    IF start >= len(frame) THEN queries
    ELSE LET end == chunk_end(start, size, len(frame))
             df_chunk == iloc(frame, start, end)
             rows == iterrows(df_chunk)
             values_list == [r \in 1..Len(rows) |-> values_of(rows[r])]
             query == [insert_command |-> insert_command(ignore),
                       table_name |-> quote_identifier(name),
                       columns |-> columns_of(frame),
                       values_list |-> values_list]
         IN  IF values_list = <<>>
             THEN chunk_loop(frame, name, size, ignore, start + size, queries)
             ELSE chunk_loop(frame, name, size, ignore, start + size, Append(queries, query))

generate_chunked_insert_queries(frame, name, size, ignore) ==
    join(Separator, chunk_loop(frame, name, size, ignore, 0, <<>>))

(***************************************************************************)
(* The encoder applied to one value.                                       *)
(***************************************************************************)
Unset == [unset |-> TRUE]

(* the value of a sequence-valued name of the script not assigned yet *)
NotAssigned == <<Unset>>

AppIdle ==
    /\ uploaded_file = Unset /\ df = Unset /\ new_column_names = Unset
    /\ renamed_df = Unset /\ table_name = Unset /\ chunk_size = Unset
    /\ use_ignore = Unset /\ truncate_table = Unset /\ submitted = Unset
    /\ generated_queries = NotAssigned /\ final_query_output = NotAssigned
    /\ download = Unset
    /\ messages = <<>>

EncInit ==
    /\ val \in Values
    /\ literal = Unset
    /\ g_df = Unset /\ g_table_name = Unset /\ g_chunk_size = Unset
    /\ g_use_ignore = Unset /\ g_out = Unset
    /\ pc = "format_sql_value" /\ AppIdle

FormatSqlValue ==
    /\ pc = "format_sql_value"
    /\ literal' = format_sql_value(val)
    /\ pc' = "formatted"
    /\ UNCHANGED <<val, gen_vars, uploaded_file, df, new_column_names, renamed_df,
                   table_name, chunk_size, use_ignore, truncate_table, submitted,
                   generated_queries, final_query_output, download, messages>>

SpecEnc == EncInit /\ [][FormatSqlValue]_vars

(***************************************************************************)
(* Properties of the encoder, under SpecEnc.                               *)
(***************************************************************************)
Formatted == pc = "formatted"

IsText == val.t = "str"

Interior == SubSeq(literal, 2, Len(literal) - 1)

(* the documented escape set, decoded left to right *)
RECURSIVE unescape(_)
unescape(s) ==
    IF s = <<>> THEN <<>>
    ELSE IF Head(s) = BS /\ Len(s) >= 2 /\ s[2] \in {BS, SQ, DQ, "n", "r"}
         THEN <<CASE s[2] = "n" -> NL [] s[2] = "r" -> CR [] OTHER -> s[2]>>
              \o unescape(SubSeq(s, 3, Len(s)))
         ELSE <<Head(s)>> \o unescape(Tail(s))

Specials(s) == Cardinality({i \in 1..Len(s) : s[i] \in {BS, SQ, DQ, NL, CR}})

(* the number of backslashes that end right before position i of s *)
RECURSIVE BackslashRun(_, _)
BackslashRun(s, i) ==
    IF i > 1 /\ s[i - 1] = BS THEN 1 + BackslashRun(s, i - 1) ELSE 0

(* C2: every boolean, the native one and numpy's, is rendered as TRUE or   *)
(* FALSE and never through the numeric branch's text.                      *)
C2_BooleanIsTrueOrFalse ==
    (Formatted /\ val.t \in {"bool", "np.bool_"})
        => literal = (IF val.v THEN <<"TRUE">> ELSE <<"FALSE">>)

(* C3: the literal of a text is single-quoted, its interior decodes back   *)
(* to the text, and every special character was escaped exactly once (no   *)
(* step re-escaped another step's backslash).                              *)
C3_EscapeRoundTrip ==
    (Formatted /\ IsText)
        => /\ Len(literal) >= 2
           /\ literal[1] = SQ /\ literal[Len(literal)] = SQ
           /\ unescape(Interior) = val.v
           /\ Len(Interior) = Len(val.v) + Specials(val.v)

C3_Witness ==
    /\ Formatted
    /\ val = [t |-> "str", v |-> <<BS, "n", SQ>>]
    /\ literal = <<SQ, BS, BS, "n", BS, SQ, SQ>>

(* C4: every null scalar (None, NaN of either float class, NaT) is         *)
(* rendered as the unquoted NULL, whatever other category it also is.      *)
C4_NullIsNULL ==
    (Formatted /\ val \in NullValues) => literal = <<"NULL">>

C4_Witness ==
    /\ Formatted
    /\ val = [t |-> "float", v |-> NaNPayload]
    /\ literal = <<"NULL">>

(* C10: a text's literal cannot be closed early: every quote inside it     *)
(* follows an odd run of backslashes, the interior does not end in an odd  *)
(* run of backslashes, and it holds no raw newline or carriage return.     *)
C10_LiteralNotClosedEarly ==
    (Formatted /\ IsText)
        => /\ \A i \in 1..Len(Interior) :
                /\ Interior[i] = SQ => BackslashRun(Interior, i) % 2 = 1
                /\ Interior[i] \notin {NL, CR}
           /\ BackslashRun(Interior, Len(Interior) + 1) % 2 = 0

C10_Witness ==
    /\ Formatted
    /\ val = [t |-> "str", v |-> <<SQ, NL, BS>>]
    /\ literal = <<SQ, BS, SQ, BS, "n", BS, BS, SQ>>

(***************************************************************************)
(* The generator applied to one table and one configuration.               *)
(***************************************************************************)
TableNames == {<<"t">>, <<"u", "s">>}

GenInit ==
    /\ g_df \in Tables(MaxRows)
    /\ g_table_name \in TableNames
    /\ g_chunk_size \in 1..MaxChunk
    /\ g_use_ignore \in BOOLEAN
    /\ g_out = Unset
    /\ val = Unset /\ literal = Unset
    /\ pc = "generate" /\ AppIdle

Generate ==
    /\ pc = "generate"
    /\ g_out' = generate_chunked_insert_queries(g_df, g_table_name, g_chunk_size, g_use_ignore)
    /\ pc' = "generated"
    /\ UNCHANGED <<g_df, g_table_name, g_chunk_size, g_use_ignore, enc_vars,
                   uploaded_file, df, new_column_names, renamed_df,
                   table_name, chunk_size, use_ignore, truncate_table, submitted,
                   generated_queries, final_query_output, download, messages>>

SpecGen == GenInit /\ [][Generate]_vars

(***************************************************************************)
(* Properties of the generator, under SpecGen.                             *)
(***************************************************************************)
Generated == pc = "generated"

IsStatement(e) == e # Separator

Statements(out) == SelectSeq(out, IsStatement)

CeilDiv(a, b) == (a + b - 1) \div b

RECURSIVE Concat(_)
Concat(lists) == IF lists = <<>> THEN <<>> ELSE Head(lists) \o Concat(Tail(lists))

(* the tuple of row r (1-based) of the table, as the generator renders it *)
RowTuple(frame, r) == values_of(iterrows(frame)[r])

(* C1: ceil(R / C) statements (none, and an empty output, for R = 0); the  *)
(* k-th holds the rows k*C .. min((k+1)*C, R) - 1 and no others, so every  *)
(* statement has 1..C rows, only the last fewer than C, and the tuples of  *)
(* all statements in order are the table's rows in order.                  *)
C1_ChunksPartitionRows ==
    Generated =>
        LET R == len(g_df)
            C == g_chunk_size
            st == Statements(g_out)
        IN  /\ Len(st) = CeilDiv(R, C)
            /\ (R = 0) => (g_out = <<>>)
            /\ Len(g_out) = (IF Len(st) = 0 THEN 0 ELSE 2 * Len(st) - 1)
            /\ \A k \in 1..Len(st) :
                  /\ st[k].values_list =
                        [j \in 1..(Min(k * C, R) - (k - 1) * C) |-> RowTuple(g_df, (k - 1) * C + j)]
                  /\ Len(st[k].values_list) \in 1..C
                  /\ (k < Len(st)) => (Len(st[k].values_list) = C)
            /\ Concat([k \in 1..Len(st) |-> st[k].values_list])
                  = [r \in 1..R |-> RowTuple(g_df, r)]

C1_Witness ==
    /\ Generated
    /\ len(g_df) = 3 /\ g_chunk_size = 2
    /\ g_df.rows[1] # g_df.rows[2] /\ g_df.rows[2] # g_df.rows[3]
    /\ Len(g_out) = 3
    /\ Len(g_out[1].values_list) = 2 /\ Len(g_out[3].values_list) = 1

(* C8: every statement of one call has the same header: INSERT IGNORE INTO *)
(* when use_ignore is set and INSERT INTO otherwise, the backtick-quoted   *)
(* table name, and the backtick-quoted column list in column order.        *)
C8_SameHeaderInEveryStatement ==
    Generated =>
        \A k \in 1..Len(Statements(g_out)) :
            LET q == Statements(g_out)[k]
            IN  /\ q.insert_command = (IF g_use_ignore THEN "INSERT IGNORE INTO" ELSE "INSERT INTO")
                /\ q.table_name = <<BT, g_table_name, BT>>
                /\ q.columns = [i \in 1..Len(g_df.columns) |-> <<BT, g_df.columns[i], BT>>]

C8_Witness ==
    /\ Generated
    /\ ~g_use_ignore
    /\ Len(g_df.columns) = 2
    /\ Len(Statements(g_out)) = 3
    /\ \A k \in 1..3 : Statements(g_out)[k].insert_command = "INSERT INTO"

(* C9: every row tuple has one entry per column, and the i-th entry is     *)
(* format_sql_value of the value the table holds in that row's i-th        *)
(* column.  Stated for the tables without a boolean column, so that what   *)
(* C2 says of booleans plays no part in it.                                *)
C9_TupleEntriesAreEncodedCells ==
    (Generated /\ \A c \in 1..Len(g_df.dtypes) : g_df.dtypes[c] # "bool") =>
        LET tuples == Concat([k \in 1..Len(Statements(g_out)) |-> Statements(g_out)[k].values_list])
        IN  \A r \in 1..Len(tuples) :
                /\ Len(tuples[r]) = Len(g_df.columns)
                /\ \A i \in 1..Len(tuples[r]) : tuples[r][i] = format_sql_value(g_df.rows[r][i])

(***************************************************************************)
(* The Streamlit script, one run from the upload to the download button.   *)
(* pc is the section of the script the run has reached; st.stop() ends the *)
(* run at "stopped", the end of the script at "done".                      *)
(***************************************************************************)
FileNames == {<<"data", "csv">>, <<"data", "v2", "xlsx">>, <<"data", "txt">>}

FileSchemas == {<<"int64">>, <<"int64", "object">>}

FileTables == {t \in Tables(MaxFileRows) : t.dtypes \in FileSchemas}

Files == {[name |-> n, content |-> c] :
            n \in FileNames,
            c \in {[readable |-> FALSE]} \cup {[readable |-> TRUE, table |-> t] : t \in FileTables}}

NewLabels == {"a", "b", "c"}

Blank == " "

FormTableNames == {<<>>, <<Blank>>, <<"t">>, <<Blank, "t">>}

error(text) == [level |-> "error", text |-> text]
warning(text) == [level |-> "warning", text |-> text]

Init ==
    /\ pc = "upload"
    /\ AppIdle
    /\ val = Unset /\ literal = Unset
    /\ g_df = Unset /\ g_table_name = Unset /\ g_chunk_size = Unset
    /\ g_use_ignore = Unset /\ g_out = Unset

(* line 74 and the test of line 76 *)
Upload ==
    /\ pc = "upload"
    /\ \/ \E f \in Files : uploaded_file' = f /\ pc' = "load"
       \/ uploaded_file' = None /\ pc' = "done"
    /\ UNCHANGED <<df, new_column_names, renamed_df, table_name, chunk_size, use_ignore,
                   truncate_table, submitted, generated_queries, final_query_output,
                   download, messages, enc_vars, gen_vars>>

(* uploaded_file.name.split('.')[-1] *)
file_type(file) == file.name[Len(file.name)]

(* DataFrame.empty *)
empty(frame) == Len(frame.rows) = 0 \/ Len(frame.columns) = 0

(* lines 77-97 *)
Load ==
    /\ pc = "load"
    /\ IF file_type(uploaded_file) \in {"csv", "xlsx", "xls"}
       THEN IF ~uploaded_file.content.readable
            THEN /\ messages' = Append(messages, error("Error reading file"))
                 /\ pc' = "stopped"
                 /\ df' = None
            ELSE /\ df' = uploaded_file.content.table
                 /\ IF empty(df')
                    THEN /\ messages' = Append(messages, warning("The uploaded file is empty."))
                         /\ pc' = "stopped"
                    ELSE /\ messages' = messages
                         /\ pc' = "rename"
       ELSE /\ df' = None
            /\ messages' = messages \o <<error("Unsupported file type."), error("Failed to load data.")>>
            /\ pc' = "stopped"
    /\ UNCHANGED <<uploaded_file, new_column_names, renamed_df, table_name, chunk_size,
                   use_ignore, truncate_table, submitted, generated_queries,
                   final_query_output, download, enc_vars, gen_vars>>

(* DataFrame.rename(columns=mapping) *)
rename(frame, mapping) ==
    [frame EXCEPT !.columns = [i \in 1..Len(frame.columns) |-> mapping[frame.columns[i]]]]

not_unique_comparison_reversed(labels) ==
    Cardinality({labels[i] : i \in 1..Len(labels)}) > Len(labels)

(* len(set(columns)) != len(columns) *)
not_unique(labels) == Cardinality({labels[i] : i \in 1..Len(labels)}) # Len(labels)

(* lines 107-141 *)
Rename ==
    /\ pc = "rename"
    /\ \E mapping \in [{df.columns[i] : i \in 1..Len(df.columns)} -> NewLabels] :
          /\ new_column_names' = mapping
          /\ renamed_df' = rename(df, mapping)
    /\ IF not_unique(renamed_df'.columns)
       THEN /\ messages' = Append(messages, error("Error: New column names are not unique."))
            /\ pc' = "stopped"
       ELSE /\ messages' = messages
            /\ pc' = "form"
    /\ UNCHANGED <<uploaded_file, df, table_name, chunk_size, use_ignore, truncate_table,
                   submitted, generated_queries, final_query_output, download,
                   enc_vars, gen_vars>>

(* str.strip *)
RECURSIVE lstrip(_)
lstrip(s) == IF s # <<>> /\ Head(s) = Blank THEN lstrip(Tail(s)) ELSE s

RECURSIVE rstrip(_)
rstrip(s) == IF s # <<>> /\ s[Len(s)] = Blank THEN rstrip(SubSeq(s, 1, Len(s) - 1)) ELSE s

strip(s) == rstrip(lstrip(s))

name_accepted_if_not_empty(name) == name # <<>>

(* the tests of lines 168 and 169 on the table name *)
name_accepted(name) == name # <<>> /\ strip(name) # <<>>

Truncate(name) ==
    [command |-> "TRUNCATE TABLE", table_name |-> quote_identifier(name), trailer |-> "\n\n"]

wrap_truncate_after(truncate, name, generated) ==
    generated \o (IF truncate THEN <<Truncate(name)>> ELSE <<>>)

(* lines 180-185 *)
wrap(truncate, name, generated) ==
    (IF truncate THEN <<Truncate(name)>> ELSE <<>>) \o generated

(* lines 145-201 *)
Submit ==
    /\ pc = "form"
    /\ \E name \in FormTableNames, size \in 1..MaxChunk, ignore \in BOOLEAN,
          truncate \in BOOLEAN, pressed \in BOOLEAN :
          /\ table_name' = name /\ chunk_size' = size /\ use_ignore' = ignore
          /\ truncate_table' = truncate /\ submitted' = pressed
          /\ IF pressed /\ name_accepted(name)
             THEN /\ generated_queries' = generate_chunked_insert_queries(renamed_df, name, size, ignore)
                  /\ final_query_output' = wrap(truncate, name, generated_queries')
                  /\ download' = [data |-> final_query_output',
                                  file_name |-> <<name, "_batch_insert.sql">>]
                  /\ messages' = IF truncate
                                 THEN Append(messages, warning("The script includes TRUNCATE TABLE"))
                                 ELSE messages
             ELSE /\ UNCHANGED <<generated_queries, final_query_output, download>>
                  /\ messages' = IF pressed /\ name # <<>>
                                 THEN Append(messages, warning("Please enter a table name."))
                                 ELSE messages
    /\ pc' = "done"
    /\ UNCHANGED <<uploaded_file, df, new_column_names, renamed_df, enc_vars, gen_vars>>

Next == Upload \/ Load \/ Rename \/ Submit

Spec == Init /\ [][Next]_vars

(***************************************************************************)
(* Properties of the script, under Spec.                                   *)
(***************************************************************************)
Offered == download # Unset

NoOutput ==
    /\ ~Offered
    /\ generated_queries = NotAssigned
    /\ final_query_output = NotAssigned

IsTruncate(e) == "command" \in DOMAIN e

Distinct(labels) ==
    \A i, j \in 1..Len(labels) : i # j => labels[i] # labels[j]

(* C5: with the truncate flag set the output offered is one TRUNCATE TABLE *)
(* statement and its blank line followed by the generator's output,        *)
(* whatever the row count; without the flag it is the generator's output   *)
(* and holds no TRUNCATE statement.                                        *)
C5_TruncatePrependedOnce ==
    Offered =>
        LET generated == generate_chunked_insert_queries(renamed_df, table_name,
                                                         chunk_size, use_ignore)
            truncates == SelectSeq(final_query_output, IsTruncate)
        IN  /\ download.data = final_query_output
            /\ generated_queries = generated
            /\ IF truncate_table
               THEN /\ final_query_output = <<Truncate(table_name)>> \o generated
                    /\ Len(truncates) = 1
                    /\ final_query_output[1].trailer = "\n\n"
               ELSE /\ final_query_output = generated
                    /\ Len(truncates) = 0

C5_Witness ==
    /\ Offered
    /\ truncate_table = TRUE
    /\ len(renamed_df) = MaxFileRows /\ chunk_size = 1
    /\ IsTruncate(final_query_output[1])
    /\ Len(final_query_output) = 2 * MaxFileRows

(* C6: a renaming that gives two columns one name is rejected with an      *)
(* error and generation is not reached; a renaming that keeps the names    *)
(* distinct changes only the labels of the header: the statements, their   *)
(* row tuples and the column positions are those of the table as loaded.   *)
C6_RenameRejectsDuplicatesElseRelabelsOnly ==
    /\ (renamed_df # Unset /\ ~Distinct(renamed_df.columns))
          => /\ pc = "stopped"
             /\ NoOutput
             /\ messages[Len(messages)].level = "error"
    /\ Offered =>
          LET st == Statements(generated_queries)
              base == Statements(generate_chunked_insert_queries(df, table_name,
                                                                 chunk_size, use_ignore))
          IN  /\ Distinct(renamed_df.columns)
              /\ Len(st) = Len(base)
              /\ \A k \in 1..Len(st) :
                    /\ st[k].values_list = base[k].values_list
                    /\ st[k].insert_command = base[k].insert_command
                    /\ st[k].table_name = base[k].table_name
                    /\ st[k].columns =
                          [i \in 1..Len(df.columns) |-> <<BT, new_column_names[df.columns[i]], BT>>]

C6_Witness ==
    /\ Offered
    /\ df.columns = <<"a", "b">>
    /\ renamed_df.columns = <<"b", "a">>
    /\ Len(Statements(generated_queries)) = MaxFileRows

(* C7: SQL is generated and a download offered only after a file of a      *)
(* supported extension was read without error into a table with at least  *)
(* one row and a table name that is neither empty nor blank was submitted; *)
(* a run that was stopped, or that ended without these, has no output.     *)
C7_OutputOnlyAfterValidLoadAndName ==
    /\ ~NoOutput =>
          /\ pc = "done"
          /\ Offered
          /\ uploaded_file # None
          /\ file_type(uploaded_file) \in {"csv", "xlsx", "xls"}
          /\ uploaded_file.content.readable
          /\ df = uploaded_file.content.table
          /\ Len(df.rows) >= 1
          /\ submitted = TRUE
          /\ \E i \in 1..Len(table_name) : table_name[i] # Blank
    /\ pc = "stopped" => NoOutput

C7_Witness ==
    /\ Offered
    /\ pc = "done"
    /\ file_type(uploaded_file) = "xlsx"
    /\ table_name = <<Blank, "t">>
    /\ Len(df.rows) = 1

====
